---- MODULE Spec2Model ----
(***************************************************************************)
(* Model of yt_extractor: the YAML configuration loader (config_loader.py), *)
(* the batch orchestrator (__main__.py), the entry flattening of            *)
(* VideoExtractor.extract (extractor.py) and the row ordering and filename  *)
(* sanitization of ExcelExporter (exporter.py).                             *)
(*                                                                         *)
(* Python values.  A dict is a record whose DOMAIN is the set of its keys   *)
(* (the empty dict is the empty function).  Opaque strings (url, name, id,  *)
(* title) are TLA+ strings and None is the string None below.  Strings the  *)
(* code looks into or compares (upload_date, file names) are sequences of   *)
(* one-character strings, and there None is the one-element sequence        *)
(* NoneStr, which is no string.  A YAML sequence s is [list |-> s]; where a  *)
(* mapping or a sequence is expected, a YAML string t is [scalar |-> t], a  *)
(* number n is [number |-> n] and null is YNull.                            *)
(***************************************************************************)
EXTENDS Integers, Sequences, FiniteSets, Bags, TLC

VARIABLES
    \* ConfigLoader (config_loader.py)
    file,             \* what is stored at config_path
    _config,          \* ConfigLoader._config
    last,             \* the loader's last public call: [op, raised]
    returned,         \* what that call returned (None when it raised)
    \* main / process_config_file (__main__.py)
    pc,               \* "start", "loop", "done" (main returned) or "exited" (sys.exit)
    channels,         \* the list get_enabled_channels() returned
    output_settings,  \* the dict get_output_settings() returned
    idx,              \* i of `for i, channel in enumerate(channels, 1)`
    log,              \* one record per loop iteration: what was called with what
    exit_code,        \* the process exit status
    \* VideoExtractor (extractor.py)
    info,             \* what ydl.extract_info returns for channel_url
    xpc,              \* "ready", "returned" or "raised"
    _videos,          \* VideoExtractor._videos
    _channel_name,    \* VideoExtractor._channel_name
    \* ExcelExporter (exporter.py)
    videos,           \* ExcelExporter.videos
    channel_name,     \* ExcelExporter.channel_name
    filename_format,  \* the filename_format argument of export (NoFormat: None)
    epc,              \* "ready", "sanitized", "returned" or "raised"
    sorted_videos,    \* sorted_videos of export
    rows,             \* the rows appended to the worksheet
    safe_channel_name,\* what _sanitize_filename returned
    filename          \* the name of the file written

loaderVars == <<file, _config, last, returned>>
mainVars == <<pc, channels, output_settings, idx, log, exit_code>>
extractorVars == <<info, xpc, _videos, _channel_name>>
exporterVars == <<videos, channel_name, filename_format, epc, sorted_videos, rows,
                  safe_channel_name, filename>>
vars == <<file, _config, last, returned, pc, channels, output_settings, idx, log, exit_code,
          info, xpc, _videos, _channel_name,
          videos, channel_name, filename_format, epc, sorted_videos, rows,
          safe_channel_name, filename>>

---------------------------------------------------------------------------
(* Python values *)

None == "None"
NoneStr == <<None>>
EmptyDict == [k \in {} |-> None]

\* d.get(k, default)
Get(d, k, default) == IF k \in DOMAIN d THEN d[k] ELSE default

\* d[k] = v
Put(d, k, v) == [x \in (DOMAIN d) \cup {k} |-> IF x = k THEN v ELSE d[x]]

\* {**d1, **d2}
Merge(d1, d2) == [x \in (DOMAIN d1) \cup (DOMAIN d2) |-> IF x \in DOMAIN d2 THEN d2[x] ELSE d1[x]]

YList(s) == [list |-> s]
YScalar == [scalar |-> "text"]
YEmptyStr == [scalar |-> ""]
YNumber == [number |-> 5]
YNull == [null |-> TRUE]
IsList(v) == "list" \in DOMAIN v
IsStr(v) == "scalar" \in DOMAIN v
IsDict(v) == DOMAIN v \cap {"list", "scalar", "number", "null"} = {}

\* `for x in v` raises TypeError: v is a number or None
NotIterable(v) == "number" \in DOMAIN v \/ "null" \in DOMAIN v

\* `for x in v` runs no iteration: v is an empty list, string or dict
IterEmpty(v) ==
    IF IsList(v) THEN v.list = <<>>
    ELSE IF IsStr(v) THEN v.scalar = ""
    ELSE DOMAIN v = {}

\* all sequences over S of length at most n
SeqsUpTo(S, n) == UNION {[1..k -> S] : k \in 0..n}

\* the components a specification leaves out stay as constructed
IdleLoader == file = [kind |-> "missing"] /\ _config = EmptyDict
                /\ last = [op |-> "none", raised |-> FALSE] /\ returned = None
IdleMain == pc = "idle" /\ channels = <<>> /\ output_settings = EmptyDict
              /\ idx = 0 /\ log = <<>> /\ exit_code = 0

IdleExtractor == info = EmptyDict /\ xpc = "idle" /\ _videos = <<>> /\ _channel_name = ""
IdleExporter == videos = <<>> /\ channel_name = <<>> /\ filename_format = <<>> /\ epc = "idle"
                  /\ sorted_videos = <<>> /\ rows = <<>> /\ safe_channel_name = <<>>
                  /\ filename = <<>>

---------------------------------------------------------------------------
(* config_loader.py *)

\* f"Channel {n}"
ChannelLabel(n) == "Channel " \o ToString(n)

NoChannelsM(chs) == FALSE
\* `if not channels` (line 56)
NoChannels(chs) == chs = <<>>

\* the loop of _validate (lines 59-72) from Python index i on; the entries
\* before the one that raises keep the defaults written into them
RECURSIVE ValidateLoop(_, _)
ValidateLoop(chs, i) ==
    IF i >= Len(chs) THEN [raised |-> FALSE, channels |-> chs]
    ELSE LET channel == chs[i + 1]
         IN IF ~IsDict(channel) THEN [raised |-> TRUE, channels |-> chs]
            ELSE IF "url" \notin DOMAIN channel THEN [raised |-> TRUE, channels |-> chs]
            ELSE LET c1 == IF "enabled" \notin DOMAIN channel
                           THEN Put(channel, "enabled", TRUE) ELSE channel
                     c2 == IF "name" \notin DOMAIN c1
                           THEN Put(c1, "name", ChannelLabel(i + 1)) ELSE c1
                 IN ValidateLoop([chs EXCEPT ![i + 1] = c2], i + 1)

\* ConfigLoader._validate on the dict cfg: whether it raises ValueError, and
\* the dict after it (the entries are mutated in place)
Validate(cfg) ==
    IF "channels" \notin DOMAIN cfg THEN [raised |-> TRUE, config |-> cfg]
    ELSE IF ~IsList(cfg["channels"]) THEN [raised |-> TRUE, config |-> cfg]
    ELSE IF NoChannels(cfg["channels"].list) THEN [raised |-> TRUE, config |-> cfg]
    ELSE LET r == ValidateLoop(cfg["channels"].list, 0)
         IN [raised |-> r.raised, config |-> Put(cfg, "channels", YList(r.channels))]

\* ConfigLoader.load with self._config = cfg: [raised, exc, config, value];
\* config is self._config after the call
Load(f, cfg) ==
    IF f.kind = "missing"
    THEN [raised |-> TRUE, exc |-> "FileNotFoundError", config |-> cfg, value |-> EmptyDict]
    ELSE IF f.kind = "unparsable"
    THEN [raised |-> TRUE, exc |-> "ValueError", config |-> cfg, value |-> EmptyDict]
    ELSE LET v == Validate(f.doc)
         IN IF v.raised
            THEN [raised |-> TRUE, exc |-> "ValueError", config |-> v.config, value |-> EmptyDict]
            ELSE [raised |-> FALSE, exc |-> None, config |-> v.config, value |-> v.config]

\* the `if not self._config: self.load()` both getters start with
EnsureLoaded(f, cfg) ==
    IF DOMAIN cfg = {} THEN Load(f, cfg)
    ELSE [raised |-> FALSE, exc |-> None, config |-> cfg, value |-> cfg]

\* ConfigLoader.get_enabled_channels: [raised, exc, config, value].  The
\* comprehension (lines 83-87) iterates whatever `channels` holds: a number
\* or None is not iterable, an empty string or dict yields nothing, a
\* non-empty string yields its characters and a non-empty dict its keys,
\* all strings, which have no `get`
GetEnabledChannels(f, cfg) ==
    LET l == EnsureLoaded(f, cfg)
        chs == Get(l.config, "channels", YList(<<>>))
    IN IF l.raised THEN [l EXCEPT !.value = <<>>]
       ELSE IF NotIterable(chs)
       THEN [raised |-> TRUE, exc |-> "TypeError", config |-> l.config, value |-> <<>>]
       ELSE IF IterEmpty(chs)
       THEN [raised |-> FALSE, exc |-> None, config |-> l.config, value |-> <<>>]
       ELSE IF ~IsList(chs)
       THEN [raised |-> TRUE, exc |-> "AttributeError", config |-> l.config, value |-> <<>>]
       ELSE IF \E k \in 1..Len(chs.list) : ~IsDict(chs.list[k])
       THEN [raised |-> TRUE, exc |-> "AttributeError", config |-> l.config, value |-> <<>>]
       ELSE [raised |-> FALSE, exc |-> None, config |-> l.config,
             value |-> SelectSeq(chs.list, LAMBDA c : Get(c, "enabled", TRUE))]

OutputDefaults ==
    [directory |-> "outputs", filename_format |-> "{channel_name}_videos.xlsx"]

\* ConfigLoader.get_output_settings: [raised, exc, config, value];
\* `{**defaults, **output}` (line 104) raises TypeError unless output is a
\* mapping
GetOutputSettings(f, cfg) ==
    LET l == EnsureLoaded(f, cfg)
    IN IF l.raised THEN l
       ELSE IF ~IsDict(Get(l.config, "output", EmptyDict))
       THEN [raised |-> TRUE, exc |-> "TypeError", config |-> l.config, value |-> EmptyDict]
       ELSE [raised |-> FALSE, exc |-> None, config |-> l.config,
             value |-> Merge(OutputDefaults, Get(l.config, "output", EmptyDict))]

---------------------------------------------------------------------------
(* extractor.py *)

\* `if not entry` is false: the entry is neither None nor an empty dict
Truthy(entry) == DOMAIN entry # {}

\* `not s` for a string or None
Empty(s) == s = "" \/ s = None

ExpandEntryM(entry) == <<entry>>
\* what one top-level entry adds to all_videos (lines 66-72)
ExpandEntry(entry) ==
    IF Get(entry, "_type", None) = "playlist"
    THEN SelectSeq(Get(entry, "entries", <<>>), Truthy)
    ELSE <<entry>>

\* the loop over entries (lines 60-72) from position k on
RECURSIVE Flatten(_, _, _)
Flatten(entries, k, all_videos) ==
    IF k > Len(entries) THEN all_videos
    ELSE IF ~Truthy(entries[k]) THEN Flatten(entries, k + 1, all_videos)
    ELSE Flatten(entries, k + 1, all_videos \o ExpandEntry(entries[k]))

\* video_data (lines 81-87)
VideoData(entry) ==
    [id |-> entry["id"],
     title |-> Get(entry, "title", ""),
     description |-> Get(entry, "description", ""),
     url |-> "https://www.youtube.com/watch?v=" \o entry["id"],
     upload_date |-> Get(entry, "upload_date", Get(entry, "release_timestamp", <<>>))]

\* the loop over all_videos (lines 75-88) from position k on
RECURSIVE BuildVideos(_, _, _)
BuildVideos(all_videos, k, acc) ==
    IF k > Len(all_videos) THEN acc
    ELSE IF Empty(Get(all_videos[k], "id", ""))
    THEN BuildVideos(all_videos, k + 1, acc)
    ELSE BuildVideos(all_videos, k + 1, Append(acc, VideoData(all_videos[k])))

\* VideoExtractor.extract given what the backend returned (a falsy info
\* raises): [raised, videos, channel_name]
Extract(inf) ==
    IF ~Truthy(inf)
    THEN [raised |-> TRUE, videos |-> <<>>, channel_name |-> ""]
    ELSE [raised |-> FALSE,
          videos |-> BuildVideos(Flatten(Get(inf, "entries", <<>>), 1, <<>>), 1, <<>>),
          channel_name |-> Get(inf, "channel", Get(inf, "uploader", "unknown"))]

\* the entries of a tree: each entry and each entry of a tab count
RECURSIVE Nodes(_)
Nodes(es) ==
    IF es = <<>> THEN 0
    ELSE 1 + Len(Get(Head(es), "entries", <<>>)) + Nodes(Tail(es))

MaxNodes == 4

Date1 == <<"2", "0", "2", "3">>
Stamp1 == <<"1", "7">>

\* the date fields an entry may carry
DateFields ==
    {Merge(u, r) : u \in {EmptyDict, [upload_date |-> NoneStr], [upload_date |-> Date1]},
                   r \in {EmptyDict, [release_timestamp |-> Stamp1]}}

\* entries inside a tab: null, without id, videos, and a playlist nested in it
SubEntries ==
    {EmptyDict, [title |-> "T"], [id |-> "d"],
     [id |-> "c", upload_date |-> NoneStr, release_timestamp |-> Stamp1],
     [id |-> "c", upload_date |-> Date1],
     Put([id |-> "q", entries |-> <<[id |-> "z"]>>], "_type", "playlist")}

\* top-level entries: null, without id, with an empty or null id, videos, and tabs
\* (with no `entries` key, or with a list the backend fills next)
TopEntries ==
    {EmptyDict, [title |-> "T"], [id |-> "", title |-> "T"], [id |-> None],
     Put([id |-> "b"], "_type", "url"),
     Put([id |-> "P"], "_type", "playlist"),
     Put([id |-> "P", entries |-> <<>>], "_type", "playlist")}
    \cup {Merge([id |-> "a"], d) : d \in DateFields}

\* the backend adds a top-level entry to its answer
BackendYield ==
    /\ xpc = "ready"
    /\ "entries" \in DOMAIN info
    /\ Nodes(info.entries) < MaxNodes
    /\ \E e \in TopEntries : info' = [info EXCEPT !.entries = Append(@, e)]
    /\ UNCHANGED <<xpc, _videos, _channel_name, loaderVars, mainVars, exporterVars>>

\* the backend adds an entry to the tab it is listing
BackendYieldInTab ==
    /\ xpc = "ready"
    /\ "entries" \in DOMAIN info
    /\ Nodes(info.entries) < MaxNodes
    /\ info.entries # <<>>
    /\ LET n == Len(info.entries)
           tab == info.entries[n]
       IN /\ Get(tab, "_type", None) = "playlist"
          /\ "entries" \in DOMAIN tab
          /\ \E e \in SubEntries :
                info' = [info EXCEPT !.entries[n] = Put(tab, "entries", Append(tab.entries, e))]
    /\ UNCHANGED <<xpc, _videos, _channel_name, loaderVars, mainVars, exporterVars>>

\* extract() (lines 24-93) on the answer of the backend
DoExtract ==
    /\ xpc = "ready"
    /\ LET r == Extract(info)
       IN /\ xpc' = IF r.raised THEN "raised" ELSE "returned"
          /\ _videos' = r.videos
          /\ _channel_name' = r.channel_name
    /\ UNCHANGED <<info, loaderVars, mainVars, exporterVars>>

\* the backend has no answer (None), one without entries, or starts a list
InitExtractor ==
    /\ info \in {EmptyDict, [uploader |-> "U"], [channel |-> "C", entries |-> <<>>]}
    /\ xpc = "ready"
    /\ _videos = <<>>
    /\ _channel_name = ""
    /\ IdleLoader
    /\ IdleMain
    /\ IdleExporter

NextExtractor == BackendYield \/ BackendYieldInTab \/ DoExtract

SpecExtractor == InitExtractor /\ [][NextExtractor]_vars

\* the ids of the entries of a list that have a non-empty id, in order
RECURSIVE NonEmptyIds(_)
NonEmptyIds(es) ==
    IF es = <<>> THEN <<>>
    ELSE (IF "id" \in DOMAIN Head(es) /\ Head(es).id \notin {"", None} THEN <<Head(es).id>> ELSE <<>>)
         \o NonEmptyIds(Tail(es))

\* the walk of the claim: null entries skipped, a playlist replaced by its
\* own non-null entries, everything else taken as it is
RECURSIVE Walk(_)
Walk(es) ==
    IF es = <<>> THEN <<>>
    ELSE LET e == Head(es)
         IN (IF DOMAIN e = {} THEN <<>>
             ELSE IF "_type" \in DOMAIN e /\ e["_type"] = "playlist"
             THEN (IF "entries" \in DOMAIN e
                   THEN SelectSeq(e.entries, LAMBDA x : DOMAIN x # {}) ELSE <<>>)
             ELSE <<e>>)
            \o Walk(Tail(es))

\* C5: the ids of the videos extract returns are those of the walk of the
\* entries tree, in order, with the entries without id dropped.
C5_FlattenedIdsInOrder ==
    xpc = "returned" =>
        [k \in 1..Len(_videos) |-> _videos[k].id] = NonEmptyIds(Walk(Get(info, "entries", <<>>)))

\* a tab holding a null entry and videos, followed by a top-level video
C5_Witness ==
    /\ xpc = "returned"
    /\ Len(Get(info, "entries", <<>>)) = 2
    /\ Get(info.entries[1], "_type", None) = "playlist"
    /\ Len(Get(info.entries[1], "entries", <<>>)) = 2
    /\ \E k \in 1..2 : DOMAIN info.entries[1].entries[k] = {}
    /\ Len(_videos) = 2
    /\ _videos[2].id = "b"

HasDate(e, k) == k \in DOMAIN e /\ e[k] # NoneStr

\* C8: each record's upload_date is the entry's upload_date when it has one
\* (a null one counts as none), else its release_timestamp when it has one,
\* else the empty string.
C8_UploadDateFallsBack ==
    xpc = "returned" =>
        LET kept == SelectSeq(Walk(Get(info, "entries", <<>>)),
                              LAMBDA e : "id" \in DOMAIN e /\ e.id \notin {"", None})
        IN /\ Len(kept) = Len(_videos)
           /\ \A k \in 1..Len(kept) :
                 _videos[k].upload_date =
                     IF HasDate(kept[k], "upload_date") THEN kept[k].upload_date
                     ELSE IF HasDate(kept[k], "release_timestamp") THEN kept[k].release_timestamp
                     ELSE <<>>

---------------------------------------------------------------------------
(* exporter.py *)

Digits == <<"0", "1", "2", "3", "4", "5", "6", "7", "8", "9">>

\* ord(c) of a digit
Ord(c) == 47 + (CHOOSE i \in 1..10 : Digits[i] = c)

\* a < b for two strings: Python compares str by code point, a proper
\* prefix being smaller
RECURSIVE StrLess(_, _)
StrLess(a, b) ==
    IF b = <<>> THEN FALSE
    ELSE IF a = <<>> THEN TRUE
    ELSE IF Head(a) = Head(b) THEN StrLess(Tail(a), Tail(b))
    ELSE Ord(Head(a)) < Ord(Head(b))

\* key=lambda x: x.get("upload_date") or "" (line 42)
SortKey(x) ==
    LET d == Get(x, "upload_date", NoneStr)
    IN IF d = NoneStr \/ d = <<>> THEN <<>> ELSE d

ReverseM == FALSE
\* reverse=True (line 43)
Reverse == TRUE

\* x must come before y in the sorted list whatever their input order
Before(x, y) ==
    IF Reverse THEN StrLess(SortKey(y), SortKey(x)) ELSE StrLess(SortKey(x), SortKey(y))

\* sorted() is stable: x goes behind every element it must not come before
InsertSorted(acc, x) ==
    LET p == Cardinality({j \in 1..Len(acc) : ~Before(x, acc[j])})
    IN SubSeq(acc, 1, p) \o <<x>> \o SubSeq(acc, p + 1, Len(acc))

\* sorted(self.videos, key=..., reverse=True) (lines 40-44) from position k on
RECURSIVE Sorted(_, _, _)
Sorted(vs, k, acc) ==
    IF k > Len(vs) THEN acc ELSE Sorted(vs, k + 1, InsertSorted(acc, vs[k]))

EXCEL_COLUMNS == <<"ID", "Title", "Description", "URL">>

\* the row written for a video (lines 61-66)
Row(video) ==
    <<Get(video, "id", ""), Get(video, "title", ""),
      Get(video, "description", ""), Get(video, "url", "")>>

invalid_chars == <<"<", ">", ":", "\"", "/", "\\", "|", "?", "*">>
max_length == 100

\* s.replace(c, r)
Replace(s, c, r) == [i \in 1..Len(s) |-> IF s[i] = c THEN r ELSE s[i]]

\* the loop over invalid_chars (lines 127-128) from position k on
RECURSIVE ReplaceInvalid(_, _)
ReplaceInvalid(s, k) ==
    IF k > Len(invalid_chars) THEN s
    ELSE ReplaceInvalid(Replace(s, invalid_chars[k], "_"), k + 1)

RECURSIVE LStrip(_, _)
LStrip(s, cs) == IF s # <<>> /\ Head(s) \in cs THEN LStrip(Tail(s), cs) ELSE s

RECURSIVE RStrip(_, _)
RStrip(s, cs) ==
    IF s # <<>> /\ s[Len(s)] \in cs THEN RStrip(SubSeq(s, 1, Len(s) - 1), cs) ELSE s

\* s.strip(cs)
Strip(s, cs) == RStrip(LStrip(s, cs), cs)

TruncateM(s) == s
\* lines 134-136
Truncate(s) == IF Len(s) > max_length THEN SubSeq(s, 1, max_length) ELSE s

\* ExcelExporter._sanitize_filename (lines 116-138)
SanitizeFilename(name) ==
    LET replaced == ReplaceInvalid(name, 1)
        stripped == Strip(replaced, {".", " "})
        cut == Truncate(stripped)
    IN IF cut = <<>> THEN <<"c", "h", "a", "n", "n", "e", "l">> ELSE cut

\* a format string is the sequence of its literal characters and its
\* replacement fields; NoFormat is filename_format=None
NoFormat == <<None>>
DefaultFormat ==
    <<"{channel_name}", "_", "v", "i", "d", "e", "o", "s", ".", "x", "l", "s", "x">>
DatedFormat == <<"{channel_name}", "_", "{date}", ".", "x", "l", "s", "x">>

\* fmt.format(channel_name=name, date=date)
RECURSIVE Format(_, _, _)
Format(fmt, name, date) ==
    IF fmt = <<>> THEN <<>>
    ELSE (IF Head(fmt) = "{channel_name}" THEN name
          ELSE IF Head(fmt) = "{date}" THEN date
          ELSE <<Head(fmt)>>)
         \o Format(Tail(fmt), name, date)

\* what the file system does to export: nothing goes wrong ("ok"),
\* output_dir.mkdir raises (line 79) or wb.save raises (line 99)
FileSystemOutcomes == {"ok", "mkdir", "save"}

\* ExcelExporter.export (lines 24-104) on a given day.  The rows are appended
\* before the directory is made; when mkdir raises, the name is not sanitized
\* and no file name is computed (lines 88-94 are not reached)
Export(vs, name, fmt, today, fs) ==
    LET sv == Sorted(vs, 1, <<>>)
        safe == SanitizeFilename(name)
    IN [raised |-> fs # "ok",
        sorted_videos |-> sv,
        rows |-> <<EXCEL_COLUMNS>> \o [k \in 1..Len(sv) |-> Row(sv[k])],
        safe_channel_name |-> IF fs = "mkdir" THEN <<>> ELSE safe,
        filename |-> IF fs = "mkdir" THEN <<>>
                     ELSE Format(IF fmt = NoFormat THEN DefaultFormat ELSE fmt, safe, today)]

Today == <<"2", "0", "2", "4", "0", "1", "0", "1">>

DoExport ==
    /\ epc = "ready"
    /\ \E fs \in FileSystemOutcomes :
          LET r == Export(videos, channel_name, filename_format, Today, fs)
          IN /\ epc' = IF r.raised THEN "raised" ELSE "returned"
             /\ sorted_videos' = r.sorted_videos
             /\ rows' = r.rows
             /\ safe_channel_name' = r.safe_channel_name
             /\ filename' = r.filename
    /\ UNCHANGED <<videos, channel_name, filename_format, loaderVars, mainVars, extractorVars>>

\* the call of _sanitize_filename alone (line 88)
DoSanitize ==
    /\ epc = "ready"
    /\ epc' = "sanitized"
    /\ safe_channel_name' = SanitizeFilename(channel_name)
    /\ UNCHANGED <<videos, channel_name, filename_format, sorted_videos, rows, filename,
                   loaderVars, mainVars, extractorVars>>

MaxVideos == 3
MaxAffix == 2

\* the upload dates of the records: absent (Absent), None, empty, or a date
Absent == <<"absent">>
UploadDates ==
    {Absent, NoneStr, <<>>, <<"2", "0", "2", "3">>, <<"2", "0", "2", "3", "0", "1", "0", "1">>,
     <<"2", "0", "2", "3", "0", "3", "0", "1">>, <<"2", "0", "2", "4">>}

\* the k-th record of a list: ids are unique within a channel
Video(k, d) ==
    LET v == [id |-> "v" \o ToString(k), title |-> "T", description |-> "",
              url |-> "https://www.youtube.com/watch?v=v" \o ToString(k)]
    IN IF d = Absent THEN v ELSE Put(v, "upload_date", d)

VideoLists ==
    UNION {{[k \in 1..n |-> Video(k, ds[k])] : ds \in [1..n -> UploadDates]} : n \in 0..MaxVideos}

InitExporter ==
    /\ videos \in VideoLists
    /\ channel_name \in {<<"A", "/", "B">>, <<" ", ".">>}
    /\ filename_format \in {NoFormat, DatedFormat}
    /\ epc = "ready"
    /\ sorted_videos = <<>>
    /\ rows = <<>>
    /\ safe_channel_name = <<>>
    /\ filename = <<>>
    /\ IdleLoader
    /\ IdleMain
    /\ IdleExtractor

NextExporter == DoExport

SpecExporter == InitExporter /\ [][NextExporter]_vars

\* channel names: up to MaxAffix characters, a run of x, up to MaxAffix characters
NameChars == {"x", " ", ".", "/"}
PadLengths == {0} \cup {max_length - k : k \in 0..MaxAffix}
Pad(n) == [i \in 1..n |-> "x"]
Names ==
    {pre \o Pad(n) \o suf : pre \in SeqsUpTo(NameChars, MaxAffix), n \in PadLengths,
                            suf \in SeqsUpTo(NameChars, MaxAffix)}

InitSanitize ==
    /\ channel_name \in Names
    /\ videos = <<>>
    /\ filename_format = NoFormat
    /\ epc = "ready"
    /\ sorted_videos = <<>>
    /\ rows = <<>>
    /\ safe_channel_name = <<>>
    /\ filename = <<>>
    /\ IdleLoader
    /\ IdleMain
    /\ IdleExtractor

NextSanitize == DoSanitize

SpecSanitize == InitSanitize /\ [][NextSanitize]_vars

\* the key the claim orders by: the upload date, the empty string when it is
\* empty, null or absent
ClaimedKey(v) ==
    IF "upload_date" \notin DOMAIN v THEN <<>>
    ELSE IF v.upload_date = NoneStr THEN <<>>
    ELSE v.upload_date

SeqToBag(s) == [x \in {s[k] : k \in 1..Len(s)} |-> Cardinality({k \in 1..Len(s) : s[k] = x})]

\* C6: the data rows are written in non-increasing order of upload date, an
\* empty, null or absent date counting as the empty string, and are a
\* permutation of the records given.
C6_RowsNewestFirst ==
    epc = "returned" =>
        /\ \A j, k \in 1..Len(sorted_videos) :
              j < k => ~StrLess(ClaimedKey(sorted_videos[j]), ClaimedKey(sorted_videos[k]))
        /\ \A j, k \in 1..Len(sorted_videos) :
              (j < k /\ ClaimedKey(sorted_videos[j]) = <<>>) => ClaimedKey(sorted_videos[k]) = <<>>
        /\ SeqToBag(sorted_videos) = SeqToBag(videos)
        /\ Len(rows) = Len(videos) + 1
        /\ \A k \in 1..Len(sorted_videos) : rows[k + 1][1] = sorted_videos[k].id

\* dates 20230101, none, 20230301 given in this order
C6_Witness ==
    /\ epc = "returned"
    /\ Len(videos) = 3
    /\ Get(videos[1], "upload_date", Absent) = <<"2", "0", "2", "3", "0", "1", "0", "1">>
    /\ Get(videos[2], "upload_date", Absent) \in {Absent, NoneStr, <<>>}
    /\ Get(videos[3], "upload_date", Absent) = <<"2", "0", "2", "3", "0", "3", "0", "1">>
    /\ <<rows[2][1], rows[3][1], rows[4][1]>> = <<"v3", "v1", "v2">>

NineChars == {"<", ">", ":", "\"", "/", "\\", "|", "?", "*"}

\* the sanitization as the claim words it
ClaimedSanitized(name) ==
    LET replaced == [i \in 1..Len(name) |-> IF name[i] \in NineChars THEN "_" ELSE name[i]]
        keep == {i \in 1..Len(replaced) : replaced[i] \notin {" ", "."}}
        first == CHOOSE i \in keep : \A j \in keep : i <= j
        final == CHOOSE i \in keep : \A j \in keep : j <= i
        stripped == IF keep = {} THEN <<>> ELSE [i \in 1..(final - first + 1) |-> replaced[first + i - 1]]
        cut == [i \in 1..(IF Len(stripped) < 100 THEN Len(stripped) ELSE 100) |-> stripped[i]]
    IN IF Len(cut) = 0 THEN <<"c", "h", "a", "n", "n", "e", "l">> ELSE cut

\* C7: _sanitize_filename replaces the nine characters by "_", strips spaces
\* and dots at both ends, cuts to 100 characters and falls back to "channel";
\* its result is not empty, has at most 100 characters and none of the nine.
C7_SanitizeAsSpecified ==
    epc = "sanitized" =>
        /\ safe_channel_name = ClaimedSanitized(channel_name)
        /\ safe_channel_name # <<>>
        /\ Len(safe_channel_name) <= 100
        /\ \A i \in 1..Len(safe_channel_name) : safe_channel_name[i] \notin NineChars

\* a name longer than 100 characters after stripping, with a character replaced
C7_Witness ==
    /\ epc = "sanitized"
    /\ Len(channel_name) > 101
    /\ channel_name[1] = "."
    /\ channel_name[2] = "/"
    /\ Len(safe_channel_name) = 100
    /\ safe_channel_name[1] = "_"

\* C10: the sanitized name put into the file name neither begins nor ends
\* with a space or a dot.
C10_NoSpaceOrDotAtEnds ==
    epc = "sanitized" =>
        /\ safe_channel_name[1] \notin {" ", "."}
        /\ safe_channel_name[Len(safe_channel_name)] \notin {" ", "."}

---------------------------------------------------------------------------
(* __main__.py: batch mode *)

\* `except Exception` of the channel loop (line 120): does it catch a failure
\* raised at the given step ("extract" or "export") of the try block
CatchesM(step) == step = "extract"
Catches(step) == TRUE

\* `channel.get("name") == f"Channel {i}"` (line 102), i the 1-based position
\* in the list of enabled channels
HasPlaceholderName(channel, i) == Get(channel, "name", None) = ChannelLabel(i)

\* One iteration of the loop of process_config_file (lines 89-122) on
\* channel, the i-th enabled channel, given what the backend does (ext) and
\* whether writing the workbook fails (exp): the record of the calls made
\* and the failure, if any, that leaves the loop
ChannelStep(channel, i, ext, exp) ==
    LET config_name == Get(channel, "name", ChannelLabel(i))
        channel_url == channel["url"]
        base == [i |-> i, url |-> channel_url, extract |-> "raised", nvideos |-> 0,
                 extracted_name |-> None, export |-> "none", export_name |-> None]
    IN IF ext.raised
       THEN [entry |-> base, escaped |-> ~Catches("extract")]
       ELSE LET name == IF HasPlaceholderName(channel, i) THEN ext.name ELSE config_name
                got == [base EXCEPT !.extract = "ok", !.nvideos = ext.nvideos,
                                    !.extracted_name = ext.name]
            IN IF ext.nvideos = 0
               THEN [entry |-> got, escaped |-> FALSE]
               ELSE IF exp = "raised"
               THEN [entry |-> [got EXCEPT !.export = "raised", !.export_name = name],
                     escaped |-> ~Catches("export")]
               ELSE [entry |-> [got EXCEPT !.export = "ok", !.export_name = name],
                     escaped |-> FALSE]

\* what VideoExtractor.extract can do for one channel: raise, or return a
\* number of videos and the channel's name
ExtractOutcomes ==
    {[raised |-> TRUE, nvideos |-> 0, name |-> None],
     [raised |-> FALSE, nvideos |-> 0, name |-> "Extracted"],
     [raised |-> FALSE, nvideos |-> 2, name |-> "Extracted"]}
ExportOutcomes == {"ok", "raised"}

\* main() with --config, up to the loop: loader.load(), get_enabled_channels(),
\* get_output_settings() (lines 80-84); an exception reaches main's handler
\* (lines 39-41), which exits with status 1
MainLoadConfig ==
    /\ pc = "start"
    /\ LET l == Load(file, _config)
           c == GetEnabledChannels(file, l.config)
           o == GetOutputSettings(file, c.config)
       IN IF l.raised \/ c.raised \/ o.raised
          THEN /\ pc' = "exited"
               /\ exit_code' = 1
               /\ _config' = IF l.raised THEN l.config ELSE IF c.raised THEN c.config ELSE o.config
               /\ last' = [op |-> IF l.raised THEN "load"
                                  ELSE IF c.raised THEN "get_enabled_channels"
                                  ELSE "get_output_settings",
                           raised |-> TRUE]
               /\ returned' = None
               /\ UNCHANGED <<channels, output_settings, idx, log>>
          ELSE /\ pc' = "loop"
               /\ _config' = o.config
               /\ last' = [op |-> "get_output_settings", raised |-> FALSE]
               /\ returned' = o.value
               /\ channels' = c.value
               /\ output_settings' = o.value
               /\ idx' = 1
               /\ UNCHANGED <<log, exit_code>>
    /\ UNCHANGED <<file, extractorVars, exporterVars>>

\* one iteration of the channel loop
ProcessChannel ==
    /\ pc = "loop"
    /\ idx <= Len(channels)
    /\ \E ext \in ExtractOutcomes, exp \in ExportOutcomes :
          LET r == ChannelStep(channels[idx], idx, ext, exp)
          IN /\ log' = Append(log, r.entry)
             /\ IF r.escaped
                THEN pc' = "exited" /\ exit_code' = 1 /\ idx' = idx
                ELSE pc' = "loop" /\ exit_code' = exit_code /\ idx' = idx + 1
    /\ UNCHANGED <<loaderVars, channels, output_settings, extractorVars, exporterVars>>

\* the loop is over: "All channels processed!" (line 124) and main returns
Finish ==
    /\ pc = "loop"
    /\ idx > Len(channels)
    /\ pc' = "done"
    /\ UNCHANGED <<loaderVars, channels, output_settings, idx, log, exit_code, extractorVars, exporterVars>>

---------------------------------------------------------------------------
(* configuration files *)

MaxChannels == 3
MaxEntries == 2

\* a channel entry with the given fields; "absent" leaves a key out
ChannelDict(u, n, e) ==
    [k \in (IF u = "absent" THEN {} ELSE {"url"})
           \cup (IF n = "absent" THEN {} ELSE {"name"})
           \cup (IF e = "absent" THEN {} ELSE {"enabled"})
       |-> IF k = "enabled" THEN e = "true" ELSE IF k = "url" THEN u ELSE n]

ChannelDicts(urls, names, flags) ==
    {ChannelDict(u, n, e) : u \in urls, n \in names, e \in flags}

\* what `channels` can hold instead of a list
NonLists == {YScalar, YEmptyStr, YNumber, YNull, EmptyDict, [url |-> "url1"]}

\* what `output` can hold
Outputs == {[directory |-> "out"], YNull}

\* the files of a given shape: missing, not YAML, or a document with or
\* without `channels` (no list, or a list of at most n entries) and `output`
Files(entries, n) ==
    {[kind |-> "missing"], [kind |-> "unparsable"]}
    \cup {[kind |-> "doc", doc |-> d] :
            d \in {Merge(c, o) :
                     c \in {EmptyDict} \cup {[channels |-> v] : v \in NonLists}
                           \cup {[channels |-> YList(s)] : s \in SeqsUpTo(entries, n)},
                     o \in {EmptyDict} \cup {[output |-> v] : v \in Outputs}}}

BatchEntries ==
    {YScalar} \cup ChannelDicts({"absent", "url1", "url2"}, {"absent", "Named"}, {"absent", "false"})

LoaderEntries ==
    {YScalar} \cup ChannelDicts({"absent", "", None, "url1"}, {"absent", "Named"}, {"absent", "false"})

\* `yt-extractor --config file`: a fresh ConfigLoader, nothing run yet
Init ==
    /\ file \in Files(BatchEntries, MaxChannels)
    /\ _config = EmptyDict
    /\ last = [op |-> "none", raised |-> FALSE]
    /\ returned = None
    /\ pc = "start"
    /\ channels = <<>>
    /\ output_settings = EmptyDict
    /\ idx = 0
    /\ log = <<>>
    /\ exit_code = 0
    /\ IdleExtractor
    /\ IdleExporter

Next == MainLoadConfig \/ ProcessChannel \/ Finish

Spec == Init /\ [][Next]_vars

---------------------------------------------------------------------------
(* a client calling the loader's public methods in any order *)

LoaderCall(op, r) ==
    /\ pc = "idle"
    /\ _config' = r.config
    /\ last' = [op |-> op, raised |-> r.raised]
    /\ returned' = IF r.raised THEN None ELSE r.value
    /\ UNCHANGED <<file, mainVars, extractorVars, exporterVars>>

DoLoad == LoaderCall("load", Load(file, _config))
DoGetEnabledChannels == LoaderCall("get_enabled_channels", GetEnabledChannels(file, _config))
DoGetOutputSettings == LoaderCall("get_output_settings", GetOutputSettings(file, _config))

InitLoader ==
    /\ file \in Files(LoaderEntries, MaxEntries)
    /\ _config = EmptyDict
    /\ last = [op |-> "none", raised |-> FALSE]
    /\ returned = None
    /\ IdleMain
    /\ IdleExtractor
    /\ IdleExporter

NextLoader == DoLoad \/ DoGetEnabledChannels \/ DoGetOutputSettings

SpecLoader == InitLoader /\ [][NextLoader]_vars

---------------------------------------------------------------------------
(* claims about the configuration and the batch run *)

\* the entries of the file's channel list, as written
FileChannels == file.doc["channels"].list

\* the configuration is one the loader must reject: the file is missing or
\* is not YAML, `channels` is missing, is no list or is empty, or some entry
\* is no mapping or has no url
FileRejected ==
    \/ file.kind \in {"missing", "unparsable"}
    \/ "channels" \notin DOMAIN file.doc
    \/ ~IsList(file.doc["channels"])
    \/ FileChannels = <<>>
    \/ \E k \in 1..Len(FileChannels) :
          ~IsDict(FileChannels[k]) \/ "url" \notin DOMAIN FileChannels[k]

\* the entries of the file that are enabled, in file order, as written
FileEnabled == SelectSeq(FileChannels, LAMBDA c : Get(c, "enabled", TRUE))

\* C1: in batch mode, whichever channels fail in extraction or export, every
\* enabled channel of the file is extracted in file order, each one that
\* yields videos is handed to the exporter, the loop reaches its end and
\* main returns with status 0: once the loop has started nothing exits.
C1_BatchToleratesFailures ==
    /\ pc = "exited" => (log = <<>> /\ last.raised)
    /\ pc = "loop" => (exit_code = 0 /\ ENABLED (ProcessChannel \/ Finish))
    /\ pc \in {"loop", "done"} =>
          /\ Len(log) = (IF pc = "done" THEN Len(FileEnabled) ELSE idx - 1)
          /\ \A k \in 1..Len(log) :
                /\ log[k].i = k
                /\ log[k].url = FileEnabled[k].url
                /\ (log[k].extract = "ok" /\ log[k].nvideos > 0) => log[k].export # "none"
    /\ pc = "done" => exit_code = 0

\* channel 2 of 3 failed in extraction, channels 1 and 3 were exported
C1_Witness ==
    /\ pc = "done"
    /\ Len(log) = 3
    /\ log[1].export = "ok"
    /\ log[2].extract = "raised"
    /\ log[3].export = "ok"

\* C2: a rejected configuration ends the run with exit status 1 before any
\* extraction or export, also for the channels listed before the bad entry.
C2_RejectedConfigAborts ==
    (FileRejected /\ pc # "start") => (pc = "exited" /\ exit_code = 1 /\ log = <<>>)

\* a valid enabled channel comes first, the second entry has no url
C2_Witness ==
    /\ pc = "exited"
    /\ file.kind = "doc"
    /\ "channels" \in DOMAIN file.doc
    /\ IsList(file.doc["channels"])
    /\ Len(FileChannels) >= 2
    /\ IsDict(FileChannels[1])
    /\ DOMAIN FileChannels[1] = {"url"}
    /\ IsDict(FileChannels[2])
    /\ "url" \notin DOMAIN FileChannels[2]

\* C3: every exported channel whose entry in the file has no `name` is
\* exported under the name the extractor returned.
C3_UnnamedExportedUnderExtractedName ==
    \A k \in 1..Len(log) :
        (log[k].export # "none" /\ "name" \notin DOMAIN FileEnabled[k])
            => log[k].export_name = log[k].extracted_name

\* C4: whenever load() returns, the configuration has at least one channel
\* and every channel has a url that is neither empty nor null.
C4_LoadedUrlsNonEmpty ==
    (last.op = "load" /\ ~last.raised) =>
        LET chs == returned["channels"].list
        IN /\ Len(chs) >= 1
           /\ \A k \in 1..Len(chs) : "url" \in DOMAIN chs[k] /\ chs[k].url \notin {"", None}

\* C9: a loader whose file is rejected keeps nothing of it: its stored
\* config stays empty and both getters raise.
C9_RejectedConfigNotKept ==
    FileRejected =>
        /\ DOMAIN _config = {}
        /\ last.op \in {"get_enabled_channels", "get_output_settings"} => last.raised

====
